---- MODULE Spec2Model ----
(***************************************************************************)
(* mesheryctl "model import": the import pipeline (RunE, compressDirectory, *)
(* registerModel) and the report pass over the registry's response         *)
(* (displayEntities and the functions it calls), from                      *)
(* mesheryctl/internal/cli/root/model/import.go.                           *)
(*                                                                         *)
(* A Go string is a sequence of atoms: <<"m", ".", "tar", ".", "gz">> is   *)
(* "m.tar.gz".  The atoms ".", "/", "-" and " " are the characters the     *)
(* code looks at; every other atom is a run of characters holding none of  *)
(* them.  Concatenation is \o, so two different pairs of strings can       *)
(* concatenate to the same string, as in Go.                               *)
(*                                                                         *)
(* A decoded JSON value (interface{}) is a record tagged with its dynamic  *)
(* type: "nil", "str", "num", "list" or "map".                             *)
(***************************************************************************)
EXTENDS Integers, Sequences, FiniteSets, TLC

VARIABLES
    pc,             \* position of the run in RunE / registerModel / displayEntities
    path,           \* the path argument (location or args[0])
    tree,           \* the regular files under the path, in filepath.Walk order
    fault,          \* the stage at which the environment fails, or "none"
    walked,         \* number of files filepath.Walk has visited
    tarEntries,     \* tw: the entries appended to the tar writer
    tarData,        \* the payload handed to registerModel
    fileName,       \* the file name handed to registerModel
    requests,       \* the requests sent to the server
    errs,           \* the errors RunE has returned to its caller
    response,       \* models.RegistryAPIResponse after Unmarshal
    modelsWithoutExtension, \* local of displayEntitisIfModel
    modelsWithExtension,    \* local of displayEntitisIfModel
    idx,            \* number of displayModelInfo calls started
    blocks,         \* the displayModelInfo calls, in order: <<model, hasExtension>>
    out             \* what was written to the log and to stdout, in order

vars == <<pc, path, tree, fault, walked, tarEntries, tarData, fileName, requests,
          errs, response, modelsWithoutExtension, modelsWithExtension, idx, blocks, out>>

pipeVars == <<path, tree, fault, walked, tarEntries, tarData, fileName, requests, errs>>
reportVars == <<response, modelsWithoutExtension, modelsWithExtension, idx, blocks, out>>

(***************************************************************************)
(* Decoded JSON values                                                     *)
(***************************************************************************)
Nil == [t |-> "nil"]
Num == [t |-> "num"]
Str(s) == [t |-> "str", v |-> s]
List(l) == [t |-> "list", v |-> l]
Map(m) == [t |-> "map", v |-> m]

\* a nil map[string]interface{}
NilMap == [k \in {} |-> Nil]

\* m[k] on a map[string]interface{}: nil for a missing key and for a nil map
Get(m, k) == IF k \in DOMAIN m THEN m[k] ELSE Nil

\* what the Go runtime writes when a type assertion or an index panics
PanicLine(fn) == [t |-> "panic", fn |-> fn]

\* v, _ := x.(string)
StringOrZero(x) == IF x.t = "str" THEN x.v ELSE <<>>

\* v, _ := x.(map[string]interface{})
MapOrNil(x) == IF x.t = "map" THEN x.v ELSE NilMap

\* fmt.Sprintf("%s", x)
Sprint(x) ==
    CASE x.t = "str" -> x.v
      [] x.t = "nil" -> <<"%!s(<nil>)">>
      [] x.t = "num" -> <<"%!s(float64=1)">>
      [] x.t = "list" -> <<"[...]">>
      [] x.t = "map" -> <<"map[...]">>

(***************************************************************************)
(* Strings                                                                 *)
(***************************************************************************)
RECURSIVE ExtFrom(_, _)
ExtFrom(name, i) ==
    IF i = 0 THEN <<>>
    ELSE IF name[i] = "/" THEN <<>>
    ELSE IF name[i] = "." THEN SubSeq(name, i, Len(name))
    ELSE ExtFrom(name, i - 1)

\* filepath.Ext: the suffix beginning at the final dot of the final element
Ext(name) == ExtFrom(name, Len(name))

RECURSIVE SplitFrom(_, _, _)
SplitFrom(s, sep, cur) ==
    IF s = <<>> THEN <<cur>>
    ELSE IF Head(s) = sep THEN <<cur>> \o SplitFrom(Tail(s), sep, <<>>)
    ELSE SplitFrom(Tail(s), sep, Append(cur, Head(s)))

\* strings.Split(s, sep) for a one-character sep
Split(s, sep) == SplitFrom(s, sep, <<>>)

RECURSIVE TrimLeft(_)
TrimLeft(s) == IF s # <<>> /\ Head(s) = " " THEN TrimLeft(Tail(s)) ELSE s

RECURSIVE TrimRight(_)
TrimRight(s) ==
    IF s # <<>> /\ s[Len(s)] = " " THEN TrimRight(SubSeq(s, 1, Len(s) - 1)) ELSE s

\* strings.TrimSpace
TrimSpace(s) == TrimRight(TrimLeft(s))

(***************************************************************************)
(* displayEmtpyModel, hasExtension                                         *)
(***************************************************************************)
displayEmtpyModel(r) ==
    IF Len(r.ModelName) # 0 /\ r.CompCount = 0 /\ r.RelCount = 0
    THEN (IF r.TotalErrCount = 0 THEN FALSE ELSE TRUE)
    ELSE TRUE

hasExtension(name) ==
    LET extension == Ext(name) IN
        \/ extension = <<".", "json">>
        \/ extension = <<".", "yaml">>
        \/ extension = <<".", "yml">>
        \/ extension = <<".", "tar", ".", "gz">>
        \/ extension = <<".", "tar">>
        \/ extension = <<".", "zip">>
        \/ extension = <<".", "tgz">>

\* the loop with the lists built by prepending
RECURSIVE PartitionModelsPrepend(_, _)
PartitionModelsPrepend(names, withExt) ==
    IF names = <<>> THEN <<>>
    ELSE LET model == Head(names)
             rest == PartitionModelsPrepend(Tail(names), withExt)
         IN IF model # <<>> /\ hasExtension(model) = withExt
            THEN rest \o <<model>>
            ELSE rest

\* the first loop of displayEntitisIfModel: the non-empty names of one group
RECURSIVE PartitionModels(_, _)
PartitionModels(names, withExt) ==
    IF names = <<>> THEN <<>>
    ELSE LET model == Head(names)
             rest == PartitionModels(Tail(names), withExt)
         IN IF model # <<>> /\ hasExtension(model) = withExt
            THEN <<model>> \o rest
            ELSE rest

(***************************************************************************)
(* displaySuccessfulComponents                                             *)
(***************************************************************************)
\* one iteration of the loop over SuccessfulComponents
ComponentRow(comp, modelName) ==
    LET displayName == StringOrZero(Get(comp, "DisplayName"))
        modelData == MapOrNil(Get(comp, "Model"))
        modelDisplayName == StringOrZero(Get(modelData, "name"))
        categoryMap == Get(modelData, "category")
        modelMap == Get(modelData, "model")
    IN  IF categoryMap.t # "map" \/ modelMap.t # "map"
        THEN [panic |-> TRUE, rows |-> <<>>]
        ELSE [panic |-> FALSE,
              rows |-> IF modelDisplayName = modelName
                       THEN << <<displayName,
                                 StringOrZero(Get(categoryMap.v, "name")),
                                 StringOrZero(Get(modelMap.v, "version"))>> >>
                       ELSE <<>>]

RECURSIVE ComponentRows(_, _)
ComponentRows(comps, modelName) ==
    IF comps = <<>> THEN [panic |-> FALSE, rows |-> <<>>]
    ELSE LET first == ComponentRow(Head(comps), modelName) IN
         IF first.panic THEN first
         ELSE LET rest == ComponentRows(Tail(comps), modelName) IN
              [panic |-> rest.panic, rows |-> first.rows \o rest.rows]

\* what displaySuccessfulComponents prints, and whether it panics
displaySuccessfulComponents(r, modelName) ==
    LET res == ComponentRows(r.SuccessfulComponents, modelName) IN
    IF res.panic THEN [panic |-> TRUE, lines |-> <<PanicLine("displaySuccessfulComponents")>>]
    ELSE [panic |-> FALSE,
          lines |-> IF Len(res.rows) > 0
                    THEN <<[t |-> "blank"],
                           [t |-> "table", header |-> <<"Component", "Category", "Version">>,
                            key |-> <<>>, rows |-> res.rows]>>
                    ELSE <<>>]

(***************************************************************************)
(* displaySuccessfulRelationships                                          *)
(***************************************************************************)
\* relationshipMap[key] = append(relationshipMap[key], row); the map is kept
\* as a sequence of groups, its iteration order is chosen when it is ranged over
AppendRow(relationshipMap, key, row) ==
    IF \E g \in 1..Len(relationshipMap) : relationshipMap[g].key = key
    THEN [g \in 1..Len(relationshipMap) |->
             IF relationshipMap[g].key = key
             THEN [key |-> key, rows |-> Append(relationshipMap[g].rows, row)]
             ELSE relationshipMap[g]]
    ELSE Append(relationshipMap, [key |-> key, rows |-> <<row>>])

\* the key of the seen map for one row
SeenKey(key, fromComponent, toComponent) == key \o fromComponent \o toComponent

\* the test of the seen map left out
AlreadySeenNever(seen, key, fromComponent, toComponent) == FALSE

\* seen[key+fromComponent+toComponent]
AlreadySeen(seen, key, fromComponent, toComponent) ==
    SeenKey(key, fromComponent, toComponent) \in seen

\* the body of the loop over one record's selectors
SelectorStep(st, selector, kind, subtype) ==
    LET panicked == [st EXCEPT !.panic = TRUE] IN
    IF selector.t # "map" THEN panicked
    ELSE LET allow == Get(selector.v, "allow") IN
    IF allow.t # "map" THEN panicked
    ELSE LET from == Get(allow.v, "from")
             to == Get(allow.v, "to") IN
    IF from.t # "list" \/ to.t # "list" THEN panicked
    ELSE IF Len(from.v) = 0 \/ Len(to.v) = 0 THEN panicked
    ELSE IF from.v[1].t # "map" \/ to.v[1].t # "map" THEN panicked
    ELSE LET fromComponent == Sprint(Get(from.v[1].v, "kind"))
             toComponent == Sprint(Get(to.v[1].v, "kind"))
             key == kind \o <<"-">> \o subtype
         IN IF AlreadySeen(st.seen, key, fromComponent, toComponent)
            THEN st
            ELSE [st EXCEPT
                    !.seen = @ \cup {SeenKey(key, fromComponent, toComponent)},
                    !.relationshipMap = AppendRow(@, key, <<fromComponent, toComponent>>)]

RECURSIVE SelectorsLoop(_, _, _, _)
SelectorsLoop(st, selectors, kind, subtype) ==
    IF selectors = <<>> \/ st.panic THEN st
    ELSE SelectorsLoop(SelectorStep(st, Head(selectors), kind, subtype),
                       Tail(selectors), kind, subtype)

\* the body of the loop over SuccessfulRelationships
RelationshipStep(st, rel, model) ==
    LET panicked == [st EXCEPT !.panic = TRUE]
        kind == Get(rel, "Kind")
        subtype == Get(rel, "Subtype")
        modelMap == Get(rel, "Model")
    IN  IF kind.t # "str" \/ subtype.t # "str" \/ modelMap.t # "map" THEN panicked
        ELSE LET modelName == Get(modelMap.v, "name") IN
        IF modelName.t # "str" THEN panicked
        ELSE IF modelName.v # model THEN st
        ELSE LET selectors == Get(rel, "Selectors") IN
        IF selectors.t # "list" THEN panicked
        ELSE SelectorsLoop(st, selectors.v, kind.v, subtype.v)

RECURSIVE RelationshipsLoop(_, _, _)
RelationshipsLoop(st, rels, model) ==
    IF rels = <<>> \/ st.panic THEN st
    ELSE RelationshipsLoop(RelationshipStep(st, Head(rels), model), Tail(rels), model)

\* the relationshipMap displaySuccessfulRelationships builds, and whether it panics
RelationshipGroups(r, model) ==
    RelationshipsLoop([panic |-> FALSE, seen |-> {}, relationshipMap |-> <<>>],
                      r.SuccessfulRelationships, model)

\* what is printed for one group of relationshipMap
GroupLines(group) ==
    LET parts == Split(group.key, "-") IN
    <<[t |-> "blank"],
      [t |-> "relline",
       label |-> IF Len(group.rows) > 1 THEN "RELATIONSHIPS:" ELSE "RELATIONSHIP:",
       kind |-> parts[1], subtype |-> parts[2]],
      [t |-> "table", header |-> <<"From", "To">>, key |-> group.key,
       rows |-> group.rows]>>

RECURSIVE GroupsLines(_, _, _)
GroupsLines(relationshipMap, order, g) ==
    IF g > Len(relationshipMap) THEN <<>>
    ELSE GroupLines(relationshipMap[order[g]]) \o GroupsLines(relationshipMap, order, g + 1)

\* what displaySuccessfulRelationships prints when the range over the map
\* visits the groups in the given order
displaySuccessfulRelationships(r, model, order) ==
    LET res == RelationshipGroups(r, model) IN
    IF res.panic THEN [panic |-> TRUE, lines |-> <<PanicLine("displaySuccessfulRelationships")>>]
    ELSE [panic |-> FALSE, lines |-> GroupsLines(res.relationshipMap, order, 1)]

(***************************************************************************)
(* displayUnsuccessfulEntities                                             *)
(***************************************************************************)
RECURSIVE LongDescriptionLoop(_)
LongDescriptionLoop(items) ==
    IF items = <<>> THEN [text |-> <<>>, lines |-> <<>>]
    ELSE LET rest == LongDescriptionLoop(Tail(items))
             item == Head(items)
         IN IF item.t # "str"
            THEN [text |-> rest.text, lines |-> <<[t |-> "info"]>> \o rest.lines]
            ELSE [text |-> item.v \o <<" ">> \o rest.text, lines |-> rest.lines]

buildLongDescription(longDescriptionInterface) ==
    IF longDescriptionInterface.t # "list"
    THEN [text |-> <<>>, lines |-> <<[t |-> "info"]>>]
    ELSE LET res == LongDescriptionLoop(longDescriptionInterface.v) IN
         [text |-> TrimSpace(res.text), lines |-> res.lines]

\* one iteration of the loop over names
EntityTypeStep(st, names, entityTypes, longDescription, modelName, i) ==
    LET panicked == [st EXCEPT !.panic = TRUE]
        name == names[i]
    IN  IF i <= Len(entityTypes) /\ entityTypes[i].t # "str" THEN panicked
        ELSE LET entityType == IF i <= Len(entityTypes) THEN entityTypes[i].v ELSE <<>> IN
        IF modelName # <<>> /\ name.t # "str" THEN panicked
        ELSE IF modelName # <<>> /\ modelName # name.v THEN st
        ELSE IF modelName = <<>> /\ entityType # <<"Unknown">> THEN st
        ELSE IF entityType = <<"Unknown">>
             THEN IF name.t # "str" THEN panicked
                  ELSE [st EXCEPT !.lines = Append(@, [t |-> "unknown", name |-> name.v,
                                                       desc |-> longDescription])]
        ELSE IF entityType = <<"component">> THEN [st EXCEPT !.compCount = @ + 1]
        ELSE IF entityType = <<"relationship">> THEN [st EXCEPT !.relCount = @ + 1]
        ELSE st

RECURSIVE EntityTypeLoop(_, _, _, _, _, _)
EntityTypeLoop(st, names, entityTypes, longDescription, modelName, i) ==
    IF i > Len(names) \/ st.panic THEN st
    ELSE EntityTypeLoop(
            EntityTypeStep(st, names, entityTypes, longDescription, modelName, i),
            names, entityTypes, longDescription, modelName, i + 1)

\* the plural chosen for every positive count
CountPhrasePlural(count, kind) ==
    <<" ", ToString(count), " ", IF count > 0 THEN "entities" ELSE "entity",
      " ", "of", " ", "type", " ", kind>>

\* fmt.Sprintf(" %d %s of type <kind>", count, word)
CountPhrase(count, kind) ==
    <<" ", ToString(count), " ", IF count > 1 THEN "entities" ELSE "entity",
      " ", "of", " ", "type", " ", kind>>

\* the lines buildEntityTypeLine logs, the phrase it returns, whether it panics
buildEntityTypeLine(names, entityTypes, longDescription, modelName) ==
    LET st == EntityTypeLoop([panic |-> FALSE, compCount |-> 0, relCount |-> 0,
                              lines |-> <<>>],
                             names, entityTypes, longDescription, modelName, 1)
        line1 == IF st.compCount > 0 THEN CountPhrase(st.compCount, "component") ELSE <<>>
        line2 == IF st.compCount > 0 /\ st.relCount > 0
                 THEN line1 \o <<" ", "and">> ELSE line1
        line3 == IF st.relCount > 0
                 THEN line2 \o CountPhrase(st.relCount, "relationship") ELSE line2
    IN  [panic |-> st.panic, lines |-> st.lines,
         EntityTypeLine |-> IF st.panic THEN <<>> ELSE line3]

\* the cast's error dropped
CastMapUnchecked(x) == [err |-> FALSE, v |-> MapOrNil(x)]

\* meshkitutils.Cast[map[string]interface{}](x)
CastMap(x) == [err |-> x.t # "map", v |-> MapOrNil(x)]

\* meshkitutils.Cast[[]interface{}](x)
CastList(x) == [err |-> x.t # "list", v |-> IF x.t = "list" THEN x.v ELSE <<>>]

\* the body of the loop over UnsuccessfulEntityNameWithError
UnsuccessfulEntity(entity, modelName) ==
    LET diagnostic == [panic |-> FALSE, lines |-> <<[t |-> "diag"]>>]
        entityMap == CastMap(entity)
        names == CastList(Get(entityMap.v, "name"))
        entityTypes == CastList(Get(entityMap.v, "entityType"))
        errorDetails == CastMap(Get(entityMap.v, "error"))
    IN  IF entityMap.err THEN diagnostic
        ELSE IF names.err THEN diagnostic
        ELSE IF entityTypes.err THEN diagnostic
        ELSE IF errorDetails.err THEN diagnostic
        ELSE LET long == buildLongDescription(Get(errorDetails.v, "LongDescription"))
                 built == buildEntityTypeLine(names.v, entityTypes.v, long.text, modelName)
             IN [panic |-> built.panic,
                 lines |-> long.lines \o built.lines \o
                           IF built.panic THEN <<PanicLine("buildEntityTypeLine")>>
                           ELSE IF built.EntityTypeLine # <<>>
                           THEN <<[t |-> "blank"],
                                  [t |-> "errline", phrase |-> built.EntityTypeLine,
                                   desc |-> long.text]>>
                           ELSE <<>>]

\* the lines of one record, tagged with the record's index
TagRec(lines, i) == [k \in 1..Len(lines) |-> [rec |-> i] @@ lines[k]]

RECURSIVE UnsuccessfulLoop(_, _, _)
UnsuccessfulLoop(entities, modelName, i) ==
    IF i > Len(entities) THEN [panic |-> FALSE, lines |-> <<>>]
    ELSE LET first == UnsuccessfulEntity(entities[i], modelName) IN
         IF first.panic THEN [panic |-> TRUE, lines |-> TagRec(first.lines, i)]
         ELSE LET rest == UnsuccessfulLoop(entities, modelName, i + 1) IN
              [panic |-> rest.panic, lines |-> TagRec(first.lines, i) \o rest.lines]

\* what displayUnsuccessfulEntities logs up to its return or its panic
displayUnsuccessfulEntities(r, modelName) ==
    UnsuccessfulLoop(r.UnsuccessfulEntityNameWithError, modelName, 1)

(***************************************************************************)
(* displaySummary                                                          *)
(***************************************************************************)
displaySummary(r) == <<[t |-> "summary", msg |-> r.ErrMsg]>>

\* the lines of one displayModelInfo call, tagged with the call's number
TagBlock(lines, b) == [k \in 1..Len(lines) |-> [blk |-> b] @@ lines[k]]

(***************************************************************************)
(* path/filepath                                                           *)
(***************************************************************************)
RECURSIVE JoinElements(_)
JoinElements(elems) ==
    IF elems = <<>> THEN <<>>
    ELSE IF Len(elems) = 1 THEN elems[1]
    ELSE elems[1] \o <<"/">> \o JoinElements(Tail(elems))

\* the elements Clean keeps: no empty element, no ".", and ".." eats its parent
RECURSIVE CleanElements(_, _, _)
CleanElements(elems, kept, rooted) ==
    IF elems = <<>> THEN kept
    ELSE LET e == Head(elems) IN
         IF e = <<>> \/ e = <<".">> THEN CleanElements(Tail(elems), kept, rooted)
         ELSE IF e = <<".", ".">>
              THEN IF kept # <<>> /\ kept[Len(kept)] # <<".", ".">>
                   THEN CleanElements(Tail(elems), SubSeq(kept, 1, Len(kept) - 1), rooted)
                   ELSE IF rooted THEN CleanElements(Tail(elems), kept, rooted)
                   ELSE CleanElements(Tail(elems), Append(kept, e), rooted)
         ELSE CleanElements(Tail(elems), Append(kept, e), rooted)

IsRooted(p) == p # <<>> /\ p[1] = "/"

\* filepath.Clean
Clean(p) ==
    LET kept == CleanElements(Split(p, "/"), <<>>, IsRooted(p)) IN
    IF IsRooted(p) THEN <<"/">> \o JoinElements(kept)
    ELSE IF kept = <<>> THEN <<".">>
    ELSE JoinElements(kept)

RECURSIVE LastSeparator(_, _)
LastSeparator(p, i) ==
    IF i = 0 THEN 0 ELSE IF p[i] = "/" THEN i ELSE LastSeparator(p, i - 1)

\* filepath.Dir
Dir(p) == Clean(SubSeq(p, 1, LastSeparator(p, Len(p))))

RECURSIVE StripSeparators(_)
StripSeparators(p) ==
    IF p # <<>> /\ p[Len(p)] = "/" THEN StripSeparators(SubSeq(p, 1, Len(p) - 1)) ELSE p

\* filepath.Base
Base(p) ==
    IF p = <<>> THEN <<".">>
    ELSE LET q == StripSeparators(p) IN
         IF q = <<>> THEN <<"/">>
         ELSE SubSeq(q, LastSeparator(q, Len(q)) + 1, Len(q))

\* filepath.Join of a path and one name
Join(p, name) == Clean(p \o <<"/">> \o name)

RECURSIVE CommonPrefix(_, _)
CommonPrefix(a, b) ==
    IF a # <<>> /\ b # <<>> /\ Head(a) = Head(b)
    THEN 1 + CommonPrefix(Tail(a), Tail(b)) ELSE 0

\* the elements of a cleaned path ("." has none)
Elements(p) ==
    LET q == IF IsRooted(p) THEN Tail(p) ELSE p IN
    IF q = <<>> \/ q = <<".">> THEN <<>> ELSE Split(q, "/")

\* filepath.Rel: [err, path]
Rel(basepath, targpath) ==
    LET base == Clean(basepath)
        targ == Clean(targpath)
        be == Elements(base)
        te == Elements(targ)
        n == CommonPrefix(be, te)
        baseLeft == SubSeq(be, n + 1, Len(be))
        targLeft == SubSeq(te, n + 1, Len(te))
    IN  IF targ = base THEN [err |-> FALSE, path |-> <<".">>]
        ELSE IF IsRooted(base) # IsRooted(targ) THEN [err |-> TRUE, path |-> <<>>]
        ELSE IF baseLeft # <<>> /\ baseLeft[1] = <<".", ".">> THEN [err |-> TRUE, path |-> <<>>]
        ELSE [err |-> FALSE,
              path |-> JoinElements([k \in 1..Len(baseLeft) |-> <<".", ".">>] \o targLeft)]

(***************************************************************************)
(* RunE, compressDirectory, registerModel                                  *)
(***************************************************************************)
\* the path filepath.Walk hands to the callback for the entry below the root
RECURSIVE WalkPath(_, _)
WalkPath(dirpath, below) ==
    IF below = <<>> THEN dirpath
    ELSE WalkPath(Join(dirpath, Head(below)), Tail(below))

\* the stages whose failure is an error of the walk callback for one entry
WalkStages == {"walk", "open", "read", "compress"}

\* does the callback fail on entry k of the walk
CallbackFails(k) ==
    /\ fault.at = k
    /\ \/ fault.stage = "walk"
       \/ fault.stage \in {"open", "read", "compress"} /\ ~tree[k].isDir

\* RunE returns err
Fail(stage) ==
    /\ errs' = Append(errs, stage)
    /\ pc' = "failed"

\* registerModel returns err: RunE logs it with utils.Log.Error and returns it
FailLogged(stage) ==
    /\ Fail(stage)
    /\ out' = Append(out, [blk |-> 0, t |-> "error", err |-> stage])

reportLocals == <<response, modelsWithoutExtension, modelsWithExtension, idx, blocks>>

\* os.Stat(path) and the branch on info.IsDir()
Stat ==
    /\ pc = "stat"
    /\ IF fault.stage = "stat" THEN Fail("stat")
       ELSE /\ pc' = IF path.isDir THEN "walk" ELSE "readfile"
            /\ UNCHANGED errs
    /\ UNCHANGED <<path, tree, fault, walked, tarEntries, tarData, fileName, requests>>
    /\ UNCHANGED reportVars

\* one call of the filepath.Walk callback in compressDirectory
WalkEntry ==
    /\ pc = "walk"
    /\ walked < Len(tree)
    /\ LET entry == tree[walked + 1]
           file == WalkPath(path.name, entry.below)
           relPath == Rel(Dir(path.name), file)
       IN  IF CallbackFails(walked + 1) THEN Fail(fault.stage) /\ UNCHANGED <<walked, tarEntries>>
           ELSE IF entry.isDir
                THEN walked' = walked + 1 /\ UNCHANGED <<pc, errs, tarEntries>>
           ELSE IF relPath.err THEN Fail("rel") /\ UNCHANGED <<walked, tarEntries>>
           ELSE /\ tarEntries' = Append(tarEntries, [name |-> relPath.path, data |-> entry.data])
                /\ walked' = walked + 1
                /\ UNCHANGED <<pc, errs>>
    /\ UNCHANGED <<path, tree, fault, tarData, fileName, requests>>
    /\ UNCHANGED reportVars

\* the end of compressDirectory (gzip of the tar buffer) and RunE's file name
Gzip ==
    /\ pc = "walk"
    /\ walked = Len(tree)
    /\ IF fault.stage \in {"gzipcopy", "gzipclose"}
       THEN Fail(fault.stage) /\ UNCHANGED <<tarData, fileName>>
       ELSE /\ tarData' = [gzip |-> TRUE, content |-> tarEntries]
            /\ fileName' = Base(path.name) \o <<".", "tar", ".", "gz">>
            /\ pc' = "register"
            /\ UNCHANGED errs
    /\ UNCHANGED <<path, tree, fault, walked, tarEntries, requests>>
    /\ UNCHANGED reportVars

\* os.ReadFile(path) for a path that is no directory
ReadFile ==
    /\ pc = "readfile"
    /\ IF fault.stage = "readfile"
       THEN Fail("readfile") /\ UNCHANGED <<tarData, fileName>>
       ELSE /\ tarData' = [gzip |-> FALSE, content |-> path.data]
            /\ fileName' = Base(path.name)
            /\ pc' = "register"
            /\ UNCHANGED errs
    /\ UNCHANGED <<path, tree, fault, walked, tarEntries, requests>>
    /\ UNCHANGED reportVars

\* registerModel up to utils.MakeRequest: the request goes out unless the
\* configuration, the marshalling, the request's construction or the
\* connection fails
MakeRequest ==
    /\ pc = "register"
    /\ IF fault.stage \in {"config", "marshal", "newrequest", "connect"}
       THEN FailLogged(fault.stage) /\ UNCHANGED requests
       ELSE /\ requests' = Append(requests, [ModelFile |-> tarData, FileName |-> fileName,
                                             UploadType |-> "file"])
            /\ IF fault.stage = "transport" THEN FailLogged("transport")
               ELSE pc' = "status" /\ UNCHANGED <<errs, out>>
    /\ UNCHANGED <<path, tree, fault, walked, tarEntries, tarData, fileName>>
    /\ UNCHANGED reportLocals

\* the status code not looked at
CheckStatusUnchecked ==
    /\ pc = "status"
    /\ pc' = "body"
    /\ UNCHANGED <<path, tree, fault, walked, tarEntries, tarData, fileName, requests, errs>>
    /\ UNCHANGED reportVars

\* resp.StatusCode != http.StatusOK
CheckStatus ==
    /\ pc = "status"
    /\ IF fault.stage = "status" THEN FailLogged("status")
       ELSE pc' = "body" /\ UNCHANGED <<errs, out>>
    /\ UNCHANGED <<path, tree, fault, walked, tarEntries, tarData, fileName, requests>>
    /\ UNCHANGED reportLocals

\* io.ReadAll(resp.Body)
ReadBody ==
    /\ pc = "body"
    /\ IF fault.stage = "body" THEN FailLogged("body")
       ELSE pc' = "unmarshal" /\ UNCHANGED <<errs, out>>
    /\ UNCHANGED <<path, tree, fault, walked, tarEntries, tarData, fileName, requests>>
    /\ UNCHANGED reportLocals

(***************************************************************************)
(* The responses of the registry                                           *)
(***************************************************************************)
MaxModels == 3
MaxRelationships == 2
MaxUnsuccessful == 2

\* the sequences over S of length at most n
SeqUpTo(S, n) == UNION {[1..k -> S] : k \in 0..n}

m1 == <<"m1">>
m2 == <<"m2">>
fYaml == <<"f", ".", "yaml">>
mTarGz == <<"m", ".", "tar", ".", "gz">>
ModelNames == {<<>>, m1, fYaml, mTarGz}

Component(displayName, model) ==
    [DisplayName |-> Str(displayName),
     Model |-> Map([name |-> Str(model),
                    category |-> Map([name |-> Str(<<"cat">>)]),
                    model |-> Map([version |-> Str(<<"v1">>)])])]

\* a component whose Model has no category map
ComponentNoCategory ==
    [DisplayName |-> Str(<<"c9">>),
     Model |-> Map([name |-> Str(m2),
                    model |-> Map([version |-> Str(<<"v1">>)])])]

Selector(from, to) ==
    Map([allow |-> Map([from |-> List(<<Map([kind |-> Str(from)])>>),
                        to |-> List(<<Map([kind |-> Str(to)])>>)])])

Relationship(kind, subtype, model, selectors) ==
    [Kind |-> Str(kind), Subtype |-> Str(subtype),
     Model |-> Map([name |-> Str(model)]), Selectors |-> List(selectors)]

RelationshipRecords ==
    {Relationship(<<"a">>, <<"b">>, m1, <<Selector(<<"a", "b">>, <<"c">>)>>),
     Relationship(<<"a">>, <<"b">>, m1, <<Selector(<<"a">>, <<"b", "c">>)>>),
     Relationship(<<"a", "-", "b">>, <<"c">>, m1, <<Selector(<<"x">>, <<"y">>)>>),
     Relationship(<<"a">>, <<"b", "-", "c">>, m1, <<Selector(<<"x">>, <<"y">>)>>),
     Relationship(<<"a">>, <<"b">>, m1,
                  <<Selector(<<"a", "b">>, <<"c">>), Selector(<<"x">>, <<"y">>),
                    Selector(<<"a", "b">>, <<"c">>)>>),
     [Version |-> Str(<<"v2">>)] @@
         Relationship(<<"a">>, <<"b">>, m1, <<Selector(<<"a", "b">>, <<"c">>)>>),
     Relationship(<<"a">>, <<"b">>, m2, <<Selector(<<"x">>, <<"y">>)>>),
     \* no Kind string
     [Subtype |-> Str(<<"b">>), Model |-> Map([name |-> Str(m2)]),
      Selectors |-> List(<<Selector(<<"x">>, <<"y">>)>>)],
     \* an empty allow.from list
     Relationship(<<"a">>, <<"b">>, m2,
                  <<Map([allow |-> Map([from |-> List(<<>>),
                                        to |-> List(<<Map([kind |-> Str(<<"y">>)])>>)])])>>)}

Entity(names, entityTypes, description) ==
    Map([name |-> List(names), entityType |-> List(entityTypes),
         error |-> Map([LongDescription |-> List(description)])])

component == Str(<<"component">>)
relationship == Str(<<"relationship">>)
Unknown == Str(<<"Unknown">>)

UnsuccessfulRecords ==
    {Entity(<<Str(m1), Str(m1), Str(m1)>>, <<component, relationship, Unknown>>,
            <<Str(<<"d1">>), Str(<<"d2">>)>>),
     Entity(<<Str(m1), Str(m2), Str(m1)>>, <<component, component, component>>,
            <<Str(<<"d1">>)>>),
     Entity(<<Str(m2), Str(m1), Str(m1)>>, <<Unknown, relationship, relationship>>,
            <<Str(<<"d1">>), Num>>),
     Entity(<<Str(fYaml), Str(m1)>>, <<Unknown>>, <<>>),
     \* no error field
     Map([name |-> List(<<Str(m1)>>), entityType |-> List(<<component>>)]),
     \* no error field and no name array
     Map([entityType |-> List(<<component>>)]),
     \* a record that is no object
     Num,
     \* a non-string entry in the entityType array
     Entity(<<Str(m1), Str(m1)>>, <<Unknown, Num>>, <<Str(<<"d1">>)>>),
     \* a non-string entry in the name array
     Entity(<<Str(m1), Num>>, <<component, component>>, <<Str(<<"d1">>)>>)}

\* the three lists of a response in which every record is well formed
GoodLists ==
    [SuccessfulComponents |-> <<Component(<<"c1">>, m1), Component(<<"c2">>, fYaml)>>,
     SuccessfulRelationships |->
        <<Relationship(<<"a">>, <<"b">>, m1, <<Selector(<<"x">>, <<"y">>)>>)>>,
     UnsuccessfulEntityNameWithError |->
        <<Entity(<<Str(m1), Str(mTarGz)>>, <<component, Unknown>>, <<Str(<<"d1">>)>>)>>]

\* the same with one malformed component
BadComponentLists ==
    [GoodLists EXCEPT !.SuccessfulComponents = <<Component(<<"c1">>, m1), ComponentNoCategory>>]

EmptyLists ==
    [SuccessfulComponents |-> <<>>, SuccessfulRelationships |-> <<>>,
     UnsuccessfulEntityNameWithError |-> <<>>]

Response(names, comp, rel, err, lists) ==
    [ErrMsg |-> <<"msg">>, ModelName |-> names,
     CompCount |-> comp, RelCount |-> rel, TotalErrCount |-> err] @@ lists

\* responses that vary the model names and the entity counts
ModelResponses ==
    {Response(names, c, r, e, lists) :
        names \in SeqUpTo(ModelNames, MaxModels), c \in 0..1, r \in 0..1, e \in 0..1,
        lists \in {GoodLists, BadComponentLists, EmptyLists}}

\* responses that vary the successful relationships
RelationshipResponses ==
    {Response(names, 0, Len(rels), 0,
              [EmptyLists EXCEPT !.SuccessfulRelationships = rels]) :
        names \in {<<m1>>, <<m2, m1>>},
        rels \in SeqUpTo(RelationshipRecords, MaxRelationships)}

\* responses that vary the unsuccessful entities
UnsuccessfulResponses ==
    {Response(names, 0, 0, Len(ents),
              [EmptyLists EXCEPT !.UnsuccessfulEntityNameWithError = ents]) :
        names \in {<<>>, <<m1>>, <<m1, m2>>, <<fYaml, m1, m1>>},
        ents \in SeqUpTo(UnsuccessfulRecords, MaxUnsuccessful)}

\* the responses an import run is checked with
ImportResponses ==
    {Response(<<m1, fYaml>>, 1, 1, 1, GoodLists),
     Response(<<m1>>, 0, 0, 0, GoodLists),
     Response(<<m1, fYaml>>, 1, 0, 0, BadComponentLists)}

\* meshkitutils.Unmarshal(string(bodyBytes), &response)
Unmarshal ==
    /\ pc = "unmarshal"
    /\ IF fault.stage = "unmarshal" THEN FailLogged("unmarshal") /\ UNCHANGED response
       ELSE /\ \E r \in ImportResponses : response' = r
            /\ pc' = "display"
            /\ UNCHANGED <<errs, out>>
    /\ UNCHANGED <<path, tree, fault, walked, tarEntries, tarData, fileName, requests>>
    /\ UNCHANGED <<modelsWithoutExtension, modelsWithExtension, idx, blocks>>

(***************************************************************************)
(* displayEntities                                                         *)
(***************************************************************************)
\* displayEntities up to the call of displayEntitisIfModel
DisplayEntities ==
    /\ pc = "display"
    /\ IF ~displayEmtpyModel(response)
       THEN pc' = "done" /\ UNCHANGED out
       ELSE /\ out' = out \o TagBlock(displaySummary(response), 0)
            /\ pc' = "partition"
    /\ UNCHANGED <<response, modelsWithoutExtension, modelsWithExtension, idx, blocks>>
    /\ UNCHANGED pipeVars

\* the first loop of displayEntitisIfModel
DisplayEntitisIfModel ==
    /\ pc = "partition"
    /\ modelsWithoutExtension' = PartitionModels(response.ModelName, FALSE)
    /\ modelsWithExtension' = PartitionModels(response.ModelName, TRUE)
    /\ pc' = "loop"
    /\ UNCHANGED <<response, idx, blocks, out>>
    /\ UNCHANGED pipeVars

\* the two loops that call displayModelInfo, and the head of displayModelInfo
DisplayModelInfo ==
    /\ pc = "loop"
    /\ IF idx < Len(modelsWithoutExtension)
       THEN /\ blocks' = Append(blocks, [model |-> modelsWithoutExtension[idx + 1],
                                        hasExtension |-> FALSE])
            /\ out' = Append(out, [blk |-> idx + 1, t |-> "model",
                                   name |-> modelsWithoutExtension[idx + 1]])
            /\ idx' = idx + 1
            /\ pc' = "components"
       ELSE IF idx < Len(modelsWithoutExtension) + Len(modelsWithExtension)
       THEN /\ blocks' = Append(blocks,
                    [model |-> modelsWithExtension[idx + 1 - Len(modelsWithoutExtension)],
                     hasExtension |-> TRUE])
            /\ idx' = idx + 1
            /\ pc' = "components"
            /\ UNCHANGED out
       ELSE pc' = "done" /\ UNCHANGED <<idx, blocks, out>>
    /\ UNCHANGED <<response, modelsWithoutExtension, modelsWithExtension>>
    /\ UNCHANGED pipeVars

DisplaySuccessfulComponents ==
    /\ pc = "components"
    /\ LET res == displaySuccessfulComponents(response, blocks[idx].model) IN
       /\ out' = out \o TagBlock(res.lines, idx)
       /\ pc' = IF res.panic THEN "panic" ELSE "relationships"
    /\ UNCHANGED <<response, modelsWithoutExtension, modelsWithExtension, idx, blocks>>
    /\ UNCHANGED pipeVars

DisplaySuccessfulRelationships ==
    /\ pc = "relationships"
    /\ \E order \in Permutations(1..Len(RelationshipGroups(response, blocks[idx].model).relationshipMap)) :
         LET res == displaySuccessfulRelationships(response, blocks[idx].model, order) IN
         /\ out' = out \o TagBlock(res.lines, idx)
         /\ pc' = IF res.panic THEN "panic" ELSE "unsuccessful"
    /\ UNCHANGED <<response, modelsWithoutExtension, modelsWithExtension, idx, blocks>>
    /\ UNCHANGED pipeVars

DisplayUnsuccessfulEntities ==
    /\ pc = "unsuccessful"
    /\ LET res == displayUnsuccessfulEntities(response, blocks[idx].model) IN
       /\ out' = out \o TagBlock(res.lines, idx)
       /\ pc' = IF res.panic THEN "panic" ELSE "loop"
    /\ UNCHANGED <<response, modelsWithoutExtension, modelsWithExtension, idx, blocks>>
    /\ UNCHANGED pipeVars

(***************************************************************************)
(* Specifications                                                          *)
(***************************************************************************)
aYaml == [below |-> << <<"a", ".", "yaml">> >>, isDir |-> FALSE, data |-> <<1>>]
subDir == [below |-> << <<"sub">> >>, isDir |-> TRUE, data |-> <<>>]
subB == [below |-> << <<"sub">>, <<"b", ".", "json">> >>, isDir |-> FALSE, data |-> <<2, 3>>]
rootDir == [below |-> <<>>, isDir |-> TRUE, data |-> <<>>]

\* the walks of a directory, in lexical order, the root first
Trees ==
    {<<rootDir>>, <<rootDir, aYaml>>, <<rootDir, subDir, subB>>,
     <<rootDir, aYaml, subDir, subB>>}

Directories ==
    {<<"models">>, <<"models", "/">>, <<".">>, <<"p", "/", "models">>,
     <<".", "/", "models">>, <<"/", "p", "/", "models", "/">>}

Stages ==
    {"none", "stat", "readfile", "gzipcopy", "gzipclose", "config", "marshal",
     "newrequest", "connect", "transport", "status", "body", "unmarshal"}

NoReport ==
    /\ response = [Response(<<>>, 0, 0, 0, EmptyLists) EXCEPT !.ErrMsg = <<>>]
    /\ modelsWithoutExtension = <<>>
    /\ modelsWithExtension = <<>>
    /\ idx = 0
    /\ blocks = <<>>
    /\ out = <<>>

\* an import run from its start
Init ==
    /\ pc = "stat"
    /\ \/ /\ path \in {[name |-> d, isDir |-> TRUE, data |-> <<>>] : d \in Directories}
          /\ tree \in Trees
       \/ /\ path \in {[name |-> <<"p", "/", "f", ".", "yaml">>, isDir |-> FALSE,
                        data |-> <<4, 5>>]}
          /\ tree = <<>>
    /\ \/ fault \in {[stage |-> s, at |-> 0] : s \in Stages}
       \/ fault \in {[stage |-> s, at |-> k] : s \in WalkStages, k \in 1..Len(tree)}
    /\ walked = 0
    /\ tarEntries = <<>>
    /\ tarData = [gzip |-> FALSE, content |-> <<>>]
    /\ fileName = <<>>
    /\ requests = <<>>
    /\ errs = <<>>
    /\ NoReport

\* a run at the call of displayEntities with the given response
AtDisplay(r) ==
    /\ pc = "display"
    /\ path = [name |-> <<"p", "/", "f", ".", "yaml">>, isDir |-> FALSE, data |-> <<4, 5>>]
    /\ tree = <<>>
    /\ fault = [stage |-> "none", at |-> 0]
    /\ walked = 0
    /\ tarEntries = <<>>
    /\ tarData = [gzip |-> FALSE, content |-> <<4, 5>>]
    /\ fileName = <<"f", ".", "yaml">>
    /\ requests = <<[ModelFile |-> tarData, FileName |-> fileName, UploadType |-> "file"]>>
    /\ errs = <<>>
    /\ response = r
    /\ modelsWithoutExtension = <<>>
    /\ modelsWithExtension = <<>>
    /\ idx = 0
    /\ blocks = <<>>
    /\ out = <<>>

InitModels == \E r \in ModelResponses : AtDisplay(r)
InitRelationships == \E r \in RelationshipResponses : AtDisplay(r)
InitUnsuccessful == \E r \in UnsuccessfulResponses : AtDisplay(r)

Next ==
    \/ Stat
    \/ WalkEntry
    \/ Gzip
    \/ ReadFile
    \/ MakeRequest
    \/ CheckStatus
    \/ ReadBody
    \/ Unmarshal
    \/ DisplayEntities
    \/ DisplayEntitisIfModel
    \/ DisplayModelInfo
    \/ DisplaySuccessfulComponents
    \/ DisplaySuccessfulRelationships
    \/ DisplayUnsuccessfulEntities

NextReport ==
    \/ DisplayEntities
    \/ DisplayEntitisIfModel
    \/ DisplayModelInfo
    \/ DisplaySuccessfulComponents
    \/ DisplaySuccessfulRelationships
    \/ DisplayUnsuccessfulEntities

Spec == Init /\ [][Next]_vars
SpecModels == InitModels /\ [][NextReport]_vars
SpecRelationships == InitRelationships /\ [][NextReport]_vars
SpecUnsuccessful == InitUnsuccessful /\ [][NextReport]_vars

(***************************************************************************)
(* Helpers of the properties                                               *)
(***************************************************************************)
\* the positions of out that belong to displayModelInfo call b
LinesOf(b) == {k \in 1..Len(out) : out[k].blk = b}

\* the pass is over and did not panic
Returned == pc = "done"

\* the response takes the short-circuit of displayEmtpyModel
IsEmptyResponse(r) ==
    Len(r.ModelName) # 0 /\ r.CompCount = 0 /\ r.RelCount = 0 /\ r.TotalErrCount = 0

RECURSIVE Filter(_, _, _)
\* the subsequence of the names whose hasExtension verdict is withExt
Filter(names, withExt, keepEmpty) ==
    IF names = <<>> THEN <<>>
    ELSE IF hasExtension(Head(names)) = withExt /\ (keepEmpty \/ Head(names) # <<>>)
         THEN <<Head(names)>> \o Filter(Tail(names), withExt, keepEmpty)
         ELSE Filter(Tail(names), withExt, keepEmpty)

IsPrefix(a, b) == Len(a) <= Len(b) /\ a = SubSeq(b, 1, Len(a))

IsSuffix(a, b) == Len(a) <= Len(b) /\ a = SubSeq(b, Len(b) - Len(a) + 1, Len(b))

IsInfix(a, b) == \E k \in 0..(Len(b) - Len(a)) : a = SubSeq(b, k + 1, k + Len(a))

BlockModels == [b \in 1..Len(blocks) |-> blocks[b].model]

\* a "MODEL: <name>" header was logged for call b
HeaderLogged(b) ==
    \E k \in LinesOf(b) : out[k].t = "model" /\ out[k].name = blocks[b].model

RecognizedExtensions ==
    {<<".", "json">>, <<".", "yaml">>, <<".", "yml">>, <<".", "tar", ".", "gz">>,
     <<".", "tar">>, <<".", "zip">>, <<".", "tgz">>}

(***************************************************************************)
(* C1                                                                      *)
(***************************************************************************)
\* C1: when the response names a model and all three counts are zero,
\* displayEntities has emitted exactly the SUMMARY line with the response's
\* message when it returns.
C1_EmptyResponseSummaryOnly ==
    (Returned /\ IsEmptyResponse(response)) =>
        /\ Len(out) = 1
        /\ out[1].t = "summary"
        /\ out[1].msg = response.ErrMsg

(***************************************************************************)
(* C2                                                                      *)
(***************************************************************************)
\* C2: a record with a missing or wrong-typed field never ends the report
\* pass abnormally: the pass does not panic.
C2_RecordShapeNeverFatal == pc # "panic"

C5_ClassifiedBySuffix ==
    \A b \in 1..Len(blocks) :
        (~HeaderLogged(b)) <=> (\E e \in RecognizedExtensions : IsSuffix(e, blocks[b].model))

(***************************************************************************)
(* C3, C10                                                                 *)
(***************************************************************************)
\* the relationship tables of call b
RelationshipTables(b) ==
    {k \in LinesOf(b) : out[k].t = "table" /\ out[k].header = <<"From", "To">>}

\* the rows of the relationship tables of call b: <<line, row>>
RelationshipRows(b) ==
    UNION {{<<k, j>> : j \in 1..Len(out[k].rows)} : k \in RelationshipTables(b)}

\* displaySuccessfulRelationships of call b has returned
RelationshipsReturned(b) ==
    \/ b < idx
    \/ b = idx /\ pc \in {"unsuccessful", "loop", "done"}
    \/ b = idx /\ pc = "panic" /\ out[Len(out)].fn = "buildEntityTypeLine"

\* the (kind, subtype, from, to) tuples of the records of the model, for a list
\* of records that displaySuccessfulRelationships ranges over without a panic
MatchingTuples(r, model) ==
    LET rels == r.SuccessfulRelationships IN
    UNION {{<<rels[i].Kind.v, rels[i].Subtype.v,
              Sprint(Get(rels[i].Selectors.v[j].v.allow.v.from.v[1].v, "kind")),
              Sprint(Get(rels[i].Selectors.v[j].v.allow.v.to.v[1].v, "kind"))>> :
                j \in 1..Len(rels[i].Selectors.v)} :
           i \in {i \in 1..Len(rels) : rels[i].Model.v.name.v = model}}

\* C3: among the rows of the relationship tables of one call, no two rows
\* carry the same (kind, subtype, from, to): equal tuples have equal table keys
\* (kind-subtype), and no two rows agree on table key, from and to.
C3_NoDuplicateRows ==
    \A b \in 1..Len(blocks) :
        \A p \in RelationshipRows(b), q \in RelationshipRows(b) :
            (/\ out[p[1]].key = out[q[1]].key
             /\ out[p[1]].rows[p[2]] = out[q[1]].rows[q[2]]) => p = q

\* two records with the same tuple, one carrying a further field, were
\* rendered for m1 as one row
C3_Witness ==
    /\ pc = "unsuccessful"
    /\ blocks[idx].model = m1
    /\ Len(response.SuccessfulRelationships) = 2
    /\ "Version" \in DOMAIN response.SuccessfulRelationships[2]
    /\ "Version" \notin DOMAIN response.SuccessfulRelationships[1]
    /\ MatchingTuples(response, m1) = {<<<<"a">>, <<"b">>, <<"a", "b">>, <<"c">>>>}
    /\ Cardinality(RelationshipRows(idx)) = 1

\* C10: when displaySuccessfulRelationships returns, every distinct
\* (kind, subtype, from, to) of the model's records has exactly one row, in the
\* table of its kind-subtype group, and no two tuples share a row.
C10_OneRowPerTuple ==
    \A b \in 1..Len(blocks) :
        RelationshipsReturned(b) =>
            LET tuples == MatchingTuples(response, blocks[b].model) IN
            /\ \A tu \in tuples :
                 Cardinality({p \in RelationshipRows(b) :
                                /\ out[p[1]].key = tu[1] \o <<"-">> \o tu[2]
                                /\ out[p[1]].rows[p[2]] = <<tu[3], tu[4]>>}) = 1
            /\ Cardinality(RelationshipRows(b)) = Cardinality(tuples)

(***************************************************************************)
(* C6, C7                                                                  *)
(***************************************************************************)
Entities == response.UnsuccessfulEntityNameWithError

\* the lines of call b that displayUnsuccessfulEntities wrote for record i
RecordLines(b, i) ==
    {k \in LinesOf(b) : "rec" \in DOMAIN out[k] /\ out[k].rec = i}

\* the run ended in a panic of displayUnsuccessfulEntities
PanickedInUnsuccessful ==
    pc = "panic" /\ out[Len(out)].fn = "buildEntityTypeLine"

\* displayUnsuccessfulEntities of call b was entered
UnsuccessfulEntered(b) ==
    b < idx \/ (b = idx /\ (pc \in {"loop", "done"} \/ PanickedInUnsuccessful))

\* the loop of call b went through record i without a panic
Processed(b, i) ==
    \/ b < idx
    \/ b = idx /\ pc \in {"loop", "done"}
    \/ b = idx /\ PanickedInUnsuccessful /\ out[Len(out)].rec > i

\* the record passes the four casts of displayUnsuccessfulEntities
WellFormed(e) ==
    /\ e.t = "map"
    /\ Get(e.v, "name").t = "list"
    /\ Get(e.v, "entityType").t = "list"
    /\ Get(e.v, "error").t = "map"

\* the indices of the name array that name model m with the given type
IndicesOf(e, m, type) ==
    {k \in 1..Len(e.v.name.v) :
        /\ e.v.name.v[k] = Str(m)
        /\ k <= Len(e.v.entityType.v)
        /\ e.v.entityType.v[k] = type}

Says(count, kind) ==
    <<ToString(count), " ", IF count > 1 THEN "entities" ELSE "entity",
      " ", "of", " ", "type", " ", kind>>

\* C6: for a call with the non-empty model m and a record whose arrays
\* buildEntityTypeLine went through, there is one "Unknown" error line per
\* index naming m with type "Unknown" and no other; the combined line exists
\* iff c > 0 or r > 0, and its phrase says "<c> entity|entities of type
\* component" iff c > 0, "<r> entity|entities of type relationship" iff r > 0
\* (plural iff the count exceeds 1), with "and" iff both are positive.
C6_UnsuccessfulCounting ==
    \A b \in 1..Len(blocks) : \A i \in 1..Len(Entities) :
        (Processed(b, i) /\ WellFormed(Entities[i])) =>
            LET m == blocks[b].model
                c == Cardinality(IndicesOf(Entities[i], m, component))
                r == Cardinality(IndicesOf(Entities[i], m, relationship))
                unknown == {k \in RecordLines(b, i) : out[k].t = "unknown"}
                combined == {k \in RecordLines(b, i) : out[k].t = "errline"}
            IN  /\ m # <<>>
                /\ Cardinality(unknown) = Cardinality(IndicesOf(Entities[i], m, Unknown))
                /\ \A k \in unknown : out[k].name = m
                /\ Cardinality(combined) = IF c = 0 /\ r = 0 THEN 0 ELSE 1
                /\ \A k \in combined :
                     /\ IsInfix(Says(c, "component"), out[k].phrase) <=> c > 0
                     /\ IsInfix(<<"component">>, out[k].phrase) <=> c > 0
                     /\ IsInfix(Says(r, "relationship"), out[k].phrase) <=> r > 0
                     /\ IsInfix(<<"relationship">>, out[k].phrase) <=> r > 0
                     /\ IsInfix(<<"and">>, out[k].phrase) <=> (c > 0 /\ r > 0)

\* names [m1, m1, m1] with types [component, relationship, Unknown] and model
\* m1: one "Unknown" line and the phrase " 1 entity of type component and 1
\* entity of type relationship"
C6_Witness ==
    /\ Returned
    /\ Len(blocks) >= 1
    /\ Len(Entities) >= 1
    /\ WellFormed(Entities[1])
    /\ Entities[1].v.name.v = <<Str(m1), Str(m1), Str(m1)>>
    /\ Entities[1].v.entityType.v = <<component, relationship, Unknown>>
    /\ blocks[1].model = m1
    /\ Cardinality({k \in RecordLines(1, 1) : out[k].t = "unknown"}) = 1
    /\ \E k \in RecordLines(1, 1) :
         /\ out[k].t = "errline"
         /\ out[k].phrase = <<" ", "1", " ", "entity", " ", "of", " ", "type", " ", "component",
                              " ", "and",
                              " ", "1", " ", "entity", " ", "of", " ", "type", " ", "relationship">>

\* the record is an object without an error field
NoErrorField(e) == e.t = "map" /\ "error" \notin DOMAIN e.v

\* the diagnostics logged for record i, in call b and in the whole pass
Diagnostics(b, i) == {k \in RecordLines(b, i) : out[k].t = "diag"}
AllDiagnostics(i) == UNION {Diagnostics(b, i) : b \in 1..Len(blocks)}

Untag(line) == [f \in DOMAIN line \ {"blk", "rec"} |-> line[f]]

\* the lines displayUnsuccessfulEntities wrote in call b for the records other
\* than i, in order, without their tags
RECURSIVE OtherLines(_, _, _)
OtherLines(b, i, k) ==
    IF k > Len(out) THEN <<>>
    ELSE IF out[k].blk = b /\ "rec" \in DOMAIN out[k] /\ out[k].rec # i
         THEN <<Untag(out[k])>> \o OtherLines(b, i, k + 1)
         ELSE OtherLines(b, i, k + 1)

Without(seq, i) == SubSeq(seq, 1, i - 1) \o SubSeq(seq, i + 1, Len(seq))

\* what displayUnsuccessfulEntities writes for the response without record i
LinesWithout(i, modelName) ==
    LET lines == displayUnsuccessfulEntities(
                    [response EXCEPT !.UnsuccessfulEntityNameWithError = Without(@, i)],
                    modelName).lines
    IN  [k \in 1..Len(lines) |-> Untag(lines[k])]

\* C7 as stated: over a pass that rendered at least one model, a record
\* without an error field has exactly one diagnostic.
C7_OneDiagnosticPerPass ==
    (Returned /\ blocks # <<>>) =>
        \A i \in 1..Len(Entities) :
            NoErrorField(Entities[i]) => Cardinality(AllDiagnostics(i)) = 1

\* C7 amended: for a record without an error field, every call of
\* displayUnsuccessfulEntities whose loop gets to the record logs exactly one
\* diagnostic for it and writes nothing else for it, and what the call writes
\* for the other records is what it writes when the record is absent; so a
\* pass that returns logs one diagnostic per detail block (one per non-empty
\* entry of the model-name list), not one per response.
C7_OneDiagnosticPerCall ==
    \A i \in 1..Len(Entities) :
        NoErrorField(Entities[i]) =>
            /\ \A b \in 1..Len(blocks) :
                 /\ Cardinality(Diagnostics(b, i)) = IF Processed(b, i) THEN 1 ELSE 0
                 /\ RecordLines(b, i) = Diagnostics(b, i)
                 /\ UnsuccessfulEntered(b) =>
                        OtherLines(b, i, 1) = LinesWithout(i, blocks[b].model)
            /\ (Returned /\ ~IsEmptyResponse(response)) =>
                 Cardinality(AllDiagnostics(i)) =
                     Len(Filter(response.ModelName, FALSE, FALSE))
                     + Len(Filter(response.ModelName, TRUE, FALSE))

\* a record without an error field, followed by a valid record, in a pass over
\* two models: two diagnostics for the first, the combined line of the second
C7_Witness ==
    /\ Returned
    /\ Len(blocks) = 2
    /\ Len(Entities) = 2
    /\ NoErrorField(Entities[1])
    /\ WellFormed(Entities[2])
    /\ Cardinality(AllDiagnostics(1)) = 2
    /\ \E k \in RecordLines(1, 2) : out[k].t = "errline"

(***************************************************************************)
(* C8, C9                                                                  *)
(***************************************************************************)
PreSendStages ==
    {"stat", "readfile", "walk", "open", "read", "compress", "rel", "gzipcopy",
     "gzipclose", "config", "marshal", "newrequest", "connect"}

PostSendStages == {"transport", "status", "body", "unmarshal"}

ReportPositions ==
    {"display", "partition", "loop", "components", "relationships", "unsuccessful",
     "done", "panic"}

\* the failure the environment holds strikes in this run
FaultStrikes ==
    CASE fault.stage = "none" -> FALSE
      [] fault.stage = "readfile" -> ~path.isDir
      [] fault.stage \in {"gzipcopy", "gzipclose"} -> path.isDir
      [] fault.stage = "walk" -> path.isDir
      [] fault.stage \in {"open", "read", "compress"} -> path.isDir /\ ~tree[fault.at].isDir
      [] OTHER -> TRUE

\* the regular files of the walk, in order
RECURSIVE RegularFiles(_)
RegularFiles(t) ==
    IF t = <<>> THEN <<>>
    ELSE IF Head(t).isDir THEN RegularFiles(Tail(t))
    ELSE <<Head(t)>> \o RegularFiles(Tail(t))

\* the stages of registerModel, whose error RunE logs before returning it
RegisterStages ==
    {"config", "marshal", "newrequest", "connect", "transport", "status", "body",
     "unmarshal"}

\* the lines of out that displayEntities wrote
ReportLines == {k \in 1..Len(out) : out[k].t # "error"}

\* C8: a request is sent only once the path was stat-ed and the file read or
\* the directory archived whole, with no failure before it; the report is
\* made only after a request whose response had status 200 and was read and
\* parsed; a failure returns exactly one error (logged once when it comes
\* from registerModel), a failure before the request leaves nothing sent, and
\* no failure leaves a report line.
C8_StagesInOrder ==
    /\ requests # <<>> =>
         /\ Len(requests) = 1
         /\ ~(FaultStrikes /\ fault.stage \in PreSendStages)
         /\ \A k \in 1..Len(errs) : errs[k] \in PostSendStages
         /\ requests[1].ModelFile.gzip = path.isDir
         /\ path.isDir =>
              /\ walked = Len(tree)
              /\ requests[1].ModelFile.content = tarEntries
              /\ Len(tarEntries) = Len(RegularFiles(tree))
         /\ ~path.isDir => requests[1].ModelFile.content = path.data
    /\ (pc \in ReportPositions \/ ReportLines # {}) =>
         /\ Len(requests) = 1
         /\ errs = <<>>
         /\ ~FaultStrikes
         /\ response \in ImportResponses
    /\ Len(errs) <= 1
    /\ pc = "failed" <=> errs # <<>>
    /\ errs # <<>> =>
         /\ FaultStrikes
         /\ errs[1] = fault.stage
         /\ ReportLines = {}
         /\ Len(out) = IF errs[1] \in RegisterStages THEN 1 ELSE 0
         /\ errs[1] \in PreSendStages => requests = <<>>

\* a read error on the second file of a directory: one error, nothing sent
C8_Witness ==
    /\ pc = "failed"
    /\ errs = <<"read">>
    /\ path.isDir
    /\ tarEntries # <<>>
    /\ requests = <<>>
    /\ out = <<>>

\* C9: the archive of a directory has one entry per regular file and none per
\* directory, each with the file's bytes and with the path below the
\* directory's parent, so that its first segment is the directory's name, the
\* name RunE puts before ".tar.gz".
C9_EntriesBelowDirectoryName ==
    (pc = "register" /\ path.isDir) =>
        LET files == RegularFiles(tree)
            top == Base(path.name)
        IN  /\ fileName = top \o <<".", "tar", ".", "gz">>
            /\ Len(tarEntries) = Len(files)
            /\ \A k \in 1..Len(tarEntries) :
                 /\ tarEntries[k].data = files[k].data
                 /\ tarEntries[k].name = JoinElements(<<top>> \o files[k].below)

====
